---------------------------- MODULE Spec2Model ----------------------------
(***************************************************************************)
(* A model of the bytecode VM of src/src/vm.rs: the register file, the     *)
(* program counter, the loaded byte buffer, the remainder, and the public  *)
(* operations add_program, reset, run, run_once and get_register; and of   *)
(* the two-pass assembler of src/src/asm.rs: its symbol table and compile. *)
(*                                                                         *)
(* Machine integers keep their width.  An i32 is an integer of             *)
(* I32Min..I32Max.  A u32 is a pair of 16-bit halves.  A usize (64 bits)   *)
(* is a record [hi, lo] standing for hi * 2^31 + lo modulo 2^64, with lo   *)
(* in 0..I32Max; every program counter the code can produce has hi in      *)
(* {-1, 0, 1}.                                                             *)
(***************************************************************************)
EXTENDS Integers, Sequences, FiniteSets, TLC

VARIABLES
    registers,       \* VM.registers: [i32; 32], indexed 0..31
    pc,              \* VM.pc: usize
    program,         \* VM.program: Vec<u8>
    remainder,       \* VM.remainder: u32
    overflowChecks,  \* the build: TRUE when integer overflow panics (debug)
    call,            \* the last public call: its name and what it returned
    last,            \* the VM before the last step, and what the step's
                     \* execute_instruction returned ("none" when it ran none)
    stopped,         \* "no", "halted" or "faulted" since the last load/reset
    session,         \* how the VM was driven since the last load/reset
    symbols,         \* Assembler.symbols: HashMap<String, usize>
    asm,             \* the last call of compile: its source, what it
                     \* returned, the symbol table it was called with and
                     \* what the call before it returned
    compiles         \* the number of calls of compile so far

vars == <<registers, pc, program, remainder, overflowChecks, call, last,
          stopped, session, symbols, asm, compiles>>

vmVars == <<registers, pc, program, remainder, overflowChecks, call, last,
            stopped, session>>
asmVars == <<symbols, asm, compiles>>

-----------------------------------------------------------------------------
(* Machine integers *)

NumRegisters == 32
I32Max == 2147483647
I32Min == -I32Max - 1
U16Mod == 65536

AbsI32(a) == IF a < 0 THEN -a ELSE a

None == [some |-> FALSE, val |-> 0]
Some(v) == [some |-> TRUE, val |-> v]
unwrap_or(o, d) == IF o.some THEN o.val ELSE d

\* i32::checked_add: None when the sum leaves I32Min..I32Max
checked_add(a, b) ==
    IF \/ (b > 0 /\ a > I32Max - b)
       \/ (b < 0 /\ a < I32Min - b)
    THEN None
    ELSE Some(a + b)

\* i32::checked_sub: None when the difference leaves I32Min..I32Max
checked_sub(a, b) ==
    IF \/ (b < 0 /\ a > I32Max + b)
       \/ (b > 0 /\ a < I32Min + b)
    THEN None
    ELSE Some(a - b)

\* i32::checked_mul: None when the product leaves I32Min..I32Max.  The
\* product is formed only once it is known to fit.
checked_mul(a, b) ==
    IF a = 0 \/ b = 0 THEN Some(0)
    ELSE IF a = I32Min THEN (IF b = 1 THEN Some(a) ELSE None)
    ELSE IF b = I32Min THEN (IF a = 1 THEN Some(b) ELSE None)
    ELSE LET x == AbsI32(a)
             y == AbsI32(b)
         IN  IF x <= I32Max \div y THEN Some(a * b)
             ELSE IF /\ (a < 0) # (b < 0)
                     /\ I32Max % y = y - 1
                     /\ x - 1 = I32Max \div y
                  THEN Some(I32Min)
                  ELSE None

\* i32 `/`: the quotient rounded toward zero.  Called with b # 0 and not
\* (a = I32Min and b = -1).
DivI32(a, b) ==
    IF b = 1 THEN a
    ELSE IF b = -1 THEN -a
    ELSE IF b = I32Min THEN (IF a = I32Min THEN 1 ELSE 0)
    ELSE LET y == AbsI32(b)
             q == IF a = I32Min
                  THEN (I32Max \div y) + (IF I32Max % y = y - 1 THEN 1 ELSE 0)
                  ELSE AbsI32(a) \div y
         IN  IF (a < 0) # (b < 0) THEN -q ELSE q

\* i32 `%`: the remainder with the sign of the dividend.  Same domain.
RemI32(a, b) ==
    IF b = 1 \/ b = -1 THEN 0
    ELSE IF b = I32Min THEN (IF a = I32Min THEN 0 ELSE a)
    ELSE LET y == AbsI32(b)
             r == IF a = I32Min
                  THEN ((I32Max % y) + 1) % y
                  ELSE AbsI32(a) % y
         IN  IF a < 0 THEN -r ELSE r

\* `x as u32` of an i32: the same 32 bits read unsigned, x + 2^32 when x < 0.
\* A u32 is <<high 16 bits, low 16 bits>>.
I32AsU32(x) ==
    IF x >= 0
    THEN <<x \div U16Mod, x % U16Mod>>
    ELSE <<(U16Mod - 1) - ((-(x + 1)) \div U16Mod),
           (U16Mod - 1) - ((-(x + 1)) % U16Mod)>>

U32(n) == <<n \div U16Mod, n % U16Mod>>

\* usize values
Usize(n) == [hi |-> 0, lo |-> n]

\* `x as usize` of an i32: sign extension to 64 bits
I32AsUsize(x) ==
    IF x >= 0 THEN [hi |-> 0, lo |-> x]
    ELSE [hi |-> -1, lo |-> (x + I32Max) + 1]

\* a < n for a usize a and a buffer length n
UsizeLt(a, n) == a.hi = 0 /\ a.lo < n

\* a + b on usize, for a below 2^31: the sum modulo 2^64 and whether it
\* overflowed 64 bits
UsizeAdd(a, b) ==
    LET carry == a.lo > I32Max - b.lo
        lo == IF carry THEN (a.lo - (I32Max - b.lo)) - 1 ELSE a.lo + b.lo
        hi == a.hi + b.hi + (IF carry THEN 1 ELSE 0)
    IN  [val |-> [hi |-> hi, lo |-> lo],
         overflow |-> (b.hi = -1 /\ carry)]


-----------------------------------------------------------------------------
(* The VM's private helpers.  A vm is the record of the four fields of     *)
(* struct VM; each helper returns the vm it leaves together with its value. *)

VMState == [registers |-> registers, pc |-> pc, program |-> program,
            remainder |-> remainder]

\* The table as it would be if byte 8 were taken for a HLT
OpcodeFrom_eight_halts(v) ==
    CASE v = 0 \/ v = 8 -> "HLT"
      [] v = 1 -> "LOAD"
      [] v = 2 -> "ADD"
      [] v = 3 -> "SUB"
      [] v = 4 -> "MUL"
      [] v = 5 -> "DIV"
      [] v = 6 -> "JMP"
      [] v = 7 -> "JMPF"
      [] OTHER -> "IGL"

\* The table as it would be with a second absolute jump at byte 8
OpcodeFrom_eight_jumps(v) ==
    CASE v = 0 -> "HLT"
      [] v = 1 -> "LOAD"
      [] v = 2 -> "ADD"
      [] v = 3 -> "SUB"
      [] v = 4 -> "MUL"
      [] v = 5 -> "DIV"
      [] v = 6 -> "JMP"
      [] v = 7 -> "JMPF"
      [] v = 8 -> "JMP"
      [] OTHER -> "IGL"

\* impl From<u8> for Opcode
OpcodeFrom(v) ==
    CASE v = 0 -> "HLT"
      [] v = 1 -> "LOAD"
      [] v = 2 -> "ADD"
      [] v = 3 -> "SUB"
      [] v = 4 -> "MUL"
      [] v = 5 -> "DIV"
      [] v = 6 -> "JMP"
      [] v = 7 -> "JMPF"
      [] OTHER -> "IGL"

\* program[pc], the buffer being indexed from 0
ByteAt(vm, at) == vm.program[at.lo + 1]

decode_opcode(vm) ==
    [opcode |-> OpcodeFrom(ByteAt(vm, vm.pc)),
     vm |-> [vm EXCEPT !.pc = UsizeAdd(vm.pc, Usize(1)).val]]

next_8_bits(vm) ==
    IF ~UsizeLt(vm.pc, Len(vm.program))
    THEN [ok |-> FALSE, val |-> 0, vm |-> vm]
    ELSE [ok |-> TRUE, val |-> ByteAt(vm, vm.pc),
          vm |-> [vm EXCEPT !.pc = UsizeAdd(vm.pc, Usize(1)).val]]

\* next_16_bits as it would be if it read the low byte first
next_16_bits_little_endian(vm) ==
    IF ~UsizeLt(UsizeAdd(vm.pc, Usize(1)).val, Len(vm.program))
    THEN [ok |-> FALSE, val |-> 0, vm |-> vm]
    ELSE [ok |-> TRUE,
          val |-> (ByteAt(vm, UsizeAdd(vm.pc, Usize(1)).val) * 256
                   + ByteAt(vm, vm.pc)) % U16Mod,
          vm |-> [vm EXCEPT !.pc = UsizeAdd(vm.pc, Usize(2)).val]]

next_16_bits(vm) ==
    IF ~UsizeLt(UsizeAdd(vm.pc, Usize(1)).val, Len(vm.program))
    THEN [ok |-> FALSE, val |-> 0, vm |-> vm]
    ELSE [ok |-> TRUE,
          val |-> (ByteAt(vm, vm.pc) * 256
                   + ByteAt(vm, UsizeAdd(vm.pc, Usize(1)).val)) % U16Mod,
          vm |-> [vm EXCEPT !.pc = UsizeAdd(vm.pc, Usize(2)).val]]

get_three_registers(vm) ==
    LET r1 == next_8_bits(vm)
        r2 == next_8_bits(r1.vm)
        r3 == next_8_bits(r2.vm)
    IN  IF ~r1.ok
        THEN [err |-> "ProgramCounterOutOfBounds", regs |-> <<0, 0, 0>>, vm |-> r1.vm]
        ELSE IF ~r2.ok
        THEN [err |-> "ProgramCounterOutOfBounds", regs |-> <<0, 0, 0>>, vm |-> r2.vm]
        ELSE IF ~r3.ok
        THEN [err |-> "ProgramCounterOutOfBounds", regs |-> <<0, 0, 0>>, vm |-> r3.vm]
        ELSE IF \/ r1.val >= NumRegisters
                \/ r2.val >= NumRegisters
                \/ r3.val >= NumRegisters
        THEN [err |-> "RegisterOutOfBounds", regs |-> <<0, 0, 0>>, vm |-> r3.vm]
        ELSE [err |-> "", regs |-> <<r1.val, r2.val, r3.val>>, vm |-> r3.vm]

\* enum VMError
Errors == {"ProgramCounterOutOfBounds", "DivisionByZero",
           "RegisterOutOfBounds", "InvalidOpcode"}

Ok(b, vm) == [ret |-> IF b THEN "Ok(true)" ELSE "Ok(false)", vm |-> vm]
Err(e, vm) == [ret |-> e, vm |-> vm]
Panic(vm) == [ret |-> "panic", vm |-> vm]

\* The LOAD arm as it would be if it cleared the register before reading
\* the value
ExecLOAD_clears_first(vm) ==
    LET register == next_8_bits(vm)
        number == next_16_bits(register.vm)
        cleared == IF register.val < NumRegisters
                   THEN [number.vm EXCEPT !.registers[register.val] = 0]
                   ELSE number.vm
    IN  IF ~register.ok THEN Err("ProgramCounterOutOfBounds", register.vm)
        ELSE IF ~number.ok THEN Err("ProgramCounterOutOfBounds", cleared)
        ELSE IF register.val >= NumRegisters
        THEN Err("RegisterOutOfBounds", number.vm)
        ELSE Ok(TRUE, [number.vm EXCEPT !.registers[register.val] = number.val])

\* Opcode::LOAD arm
ExecLOAD(vm) ==
    LET register == next_8_bits(vm)
        number == next_16_bits(register.vm)
    IN  IF ~register.ok THEN Err("ProgramCounterOutOfBounds", register.vm)
        ELSE IF ~number.ok THEN Err("ProgramCounterOutOfBounds", number.vm)
        ELSE IF register.val >= NumRegisters
        THEN Err("RegisterOutOfBounds", number.vm)
        ELSE Ok(TRUE, [number.vm EXCEPT !.registers[register.val] = number.val])

\* The arithmetic arms as they would be if overflow saturated
ExecArith_saturating(vm, opcode) ==
    LET g == get_three_registers(vm)
        a == g.vm.registers[g.regs[1]]
        b == g.vm.registers[g.regs[2]]
        r == CASE opcode = "ADD" -> checked_add(a, b)
               [] opcode = "SUB" -> checked_sub(a, b)
               [] opcode = "MUL" -> checked_mul(a, b)
    IN  IF g.err # "" THEN Err(g.err, g.vm)
        ELSE Ok(TRUE, [g.vm EXCEPT !.registers[g.regs[3]] = unwrap_or(r, I32Max)])

\* Opcode::ADD, SUB and MUL arms: checked(..).unwrap_or(0) into reg3
ExecArith(vm, opcode) ==
    LET g == get_three_registers(vm)
        a == g.vm.registers[g.regs[1]]
        b == g.vm.registers[g.regs[2]]
        r == CASE opcode = "ADD" -> checked_add(a, b)
               [] opcode = "SUB" -> checked_sub(a, b)
               [] opcode = "MUL" -> checked_mul(a, b)
    IN  IF g.err # "" THEN Err(g.err, g.vm)
        ELSE Ok(TRUE, [g.vm EXCEPT !.registers[g.regs[3]] = unwrap_or(r, 0)])

\* The DIV arm as it would be if it cleared reg3 before testing the divisor
ExecDIV_clears_first(vm) ==
    LET g == get_three_registers(vm)
        cleared == [g.vm EXCEPT !.registers[g.regs[3]] = 0]
        a == g.vm.registers[g.regs[1]]
        b == g.vm.registers[g.regs[2]]
    IN  IF g.err # "" THEN Err(g.err, g.vm)
        ELSE IF b = 0 THEN Err("DivisionByZero", cleared)
        ELSE IF a = I32Min /\ b = -1 THEN Panic(g.vm)
        ELSE Ok(TRUE, [g.vm EXCEPT !.registers[g.regs[3]] = DivI32(a, b)])

\* Opcode::DIV arm.  The quotient is written to reg3 first; the remainder
\* is then computed from the registers as they are after that write.
ExecDIV(vm) ==
    LET g == get_three_registers(vm)
        a == g.vm.registers[g.regs[1]]
        b == g.vm.registers[g.regs[2]]
        written == [g.vm EXCEPT !.registers[g.regs[3]] = DivI32(a, b)]
        a2 == written.registers[g.regs[1]]
        b2 == written.registers[g.regs[2]]
    IN  IF g.err # "" THEN Err(g.err, g.vm)
        ELSE IF b = 0 THEN Err("DivisionByZero", g.vm)
        ELSE IF a = I32Min /\ b = -1 THEN Panic(g.vm)
        ELSE IF b2 = 0 \/ (a2 = I32Min /\ b2 = -1) THEN Panic(written)
        ELSE Ok(TRUE, [written EXCEPT !.remainder = I32AsU32(RemI32(a2, b2))])

\* The JMP arm as it would be if it checked the target against the buffer
ExecJMP_checks_target(vm) ==
    LET n == next_8_bits(vm)
        index == IF n.ok THEN n.val ELSE 0
    IN  IF index >= NumRegisters THEN Panic(n.vm)
        ELSE IF ~UsizeLt(I32AsUsize(n.vm.registers[index]), Len(vm.program))
        THEN Err("ProgramCounterOutOfBounds", n.vm)
        ELSE Ok(TRUE, [n.vm EXCEPT !.pc = I32AsUsize(n.vm.registers[index])])

\* Opcode::JMP arm: registers[next_8_bits().unwrap_or(0)], unchecked index
ExecJMP(vm) ==
    LET n == next_8_bits(vm)
        index == IF n.ok THEN n.val ELSE 0
    IN  IF index >= NumRegisters THEN Panic(n.vm)
        ELSE Ok(TRUE, [n.vm EXCEPT !.pc = I32AsUsize(n.vm.registers[index])])

\* Opcode::JMPF arm: pc += registers[..] as usize, which overflows 64 bits
\* for a negative value no larger in magnitude than pc
ExecJMPF(vm) ==
    LET n == next_8_bits(vm)
        index == IF n.ok THEN n.val ELSE 0
        sum == UsizeAdd(n.vm.pc, I32AsUsize(n.vm.registers[index]))
    IN  IF index >= NumRegisters THEN Panic(n.vm)
        ELSE IF sum.overflow /\ overflowChecks THEN Panic(n.vm)
        ELSE Ok(TRUE, [n.vm EXCEPT !.pc = sum.val])

execute_instruction(vm) ==
    IF ~UsizeLt(vm.pc, Len(vm.program))
    THEN Err("ProgramCounterOutOfBounds", vm)
    ELSE LET d == decode_opcode(vm)
         IN  CASE d.opcode = "HLT" -> Ok(FALSE, d.vm)
               [] d.opcode = "LOAD" -> ExecLOAD(d.vm)
               [] d.opcode \in {"ADD", "SUB", "MUL"} -> ExecArith(d.vm, d.opcode)
               [] d.opcode = "DIV" -> ExecDIV(d.vm)
               [] d.opcode = "IGL" -> Err("InvalidOpcode", d.vm)
               [] d.opcode = "JMP" -> ExecJMP(d.vm)
               [] d.opcode = "JMPF" -> ExecJMPF(d.vm)

-----------------------------------------------------------------------------
(* The VM's public operations, as functions of the vm record *)

\* VM::new
new == [registers |-> [i \in 0..(NumRegisters - 1) |-> 0], pc |-> Usize(0),
        program |-> <<>>, remainder |-> U32(0)]

\* reset as it would be if it left the remainder alone
reset_keeps_remainder(vm) ==
    [vm EXCEPT !.pc = Usize(0),
               !.registers = [i \in 0..(NumRegisters - 1) |-> 0]]

\* VM::reset
reset(vm) ==
    [vm EXCEPT !.pc = Usize(0),
               !.registers = [i \in 0..(NumRegisters - 1) |-> 0],
               !.remainder = U32(0)]

\* VM::add_program
add_program(vm, bytes) == reset([vm EXCEPT !.program = bytes])

\* VM::get_register
get_register(vm, index) ==
    IF index >= NumRegisters
    THEN [ret |-> "RegisterOutOfBounds", value |-> 0]
    ELSE [ret |-> "Ok(value)", value |-> vm.registers[index]]

\* The loop condition as it would be if it stopped one byte early
RunLoopCondition_early(vm) ==
    UsizeLt(UsizeAdd(vm.pc, Usize(1)).val, Len(vm.program))

\* The condition of the `while` of VM::run
RunLoopCondition(vm) == UsizeLt(vm.pc, Len(vm.program))

\* VM::run.  Each pass of the loop calls execute_instruction; `?` returns its
\* error and `break` leaves the loop on false.  `trace` lists the
\* instructions executed (where each was fetched, what it returned, where
\* it left the program counter) and `prev` is the vm before the last of
\* them.  execute_instruction is a function of the vm, so a call that comes
\* back to a vm it has been in repeats forever: it does not return, and ret
\* is "never".  Only a step that does not move the program counter forward
\* can close such a circle, so `seen` holds the vms such steps have left.
RECURSIVE run_loop(_, _, _, _)

\* The body of the loop once execute_instruction has returned r
run_body(vm, r, seen, trace) ==
    IF r.ret \in Errors \cup {"panic"}
    THEN [ret |-> r.ret, vm |-> r.vm, prev |-> vm, trace |-> trace]
    ELSE IF r.ret = "Ok(false)"
    THEN [ret |-> "Ok(())", vm |-> r.vm, prev |-> vm, trace |-> trace]
    ELSE IF r.vm.pc.hi = 0 /\ r.vm.pc.lo > vm.pc.lo
    THEN run_loop(r.vm, vm, seen, trace)
    ELSE IF r.vm \in seen
    THEN [ret |-> "never", vm |-> r.vm, prev |-> vm, trace |-> trace]
    ELSE run_loop(r.vm, vm, seen \cup {r.vm}, trace)

\* One call of execute_instruction, as the trace records it
Executes(vm, r) == [at |-> vm.pc, ret |-> r.ret, next |-> r.vm.pc]

run_pass(vm, r, seen, trace) ==
    run_body(vm, r, seen, Append(trace, Executes(vm, r)))

run_loop(vm, prev, seen, trace) ==
    IF ~RunLoopCondition(vm)
    THEN [ret |-> "Ok(())", vm |-> vm, prev |-> prev, trace |-> trace]
    ELSE run_pass(vm, execute_instruction(vm), seen, trace)

run(vm) == run_loop(vm, vm, {}, <<>>)

\* VM::run_once
run_once(vm) == execute_instruction(vm)

-----------------------------------------------------------------------------
(* The assembler of src/src/asm.rs.  A &str is the sequence of its          *)
(* characters, each a string of length one; a source is the sequence of the *)
(* lines source.lines() yields.                                             *)

\* enum AssemblerError, without the message each variant carries
AssemblerErrors == {"SyntaxError", "UnknownInstruction", "UnknownRegister",
                    "LabelNotFound"}

\* Result<T, AssemblerError>
AsmOk(v) == [err |-> "", val |-> v]
AsmErr(e) == [err |-> e, val |-> 0]

LowerCase == <<"a", "b", "c", "d", "e", "f", "g", "h", "i", "j", "k", "l", "m",
               "n", "o", "p", "q", "r", "s", "t", "u", "v", "w", "x", "y", "z">>
UpperCase == <<"A", "B", "C", "D", "E", "F", "G", "H", "I", "J", "K", "L", "M",
               "N", "O", "P", "Q", "R", "S", "T", "U", "V", "W", "X", "Y", "Z">>
Digits == <<"0", "1", "2", "3", "4", "5", "6", "7", "8", "9">>

\* char::is_whitespace, for the characters a line can hold
IsWhitespace(c) == c \in {" ", "\t", "\r"}

\* str::to_uppercase
to_uppercase(s) ==
    [i \in 1..Len(s) |->
        IF \E k \in 1..Len(LowerCase) : LowerCase[k] = s[i]
        THEN UpperCase[CHOOSE k \in 1..Len(LowerCase) : LowerCase[k] = s[i]]
        ELSE s[i]]

\* line.split(';').next().unwrap_or(""): the text before the first `;`
BeforeComment(line) ==
    IF \E i \in 1..Len(line) : line[i] = ";"
    THEN SubSeq(line, 1,
                (CHOOSE i \in 1..Len(line) :
                    /\ line[i] = ";"
                    /\ \A j \in 1..(i - 1) : line[j] # ";") - 1)
    ELSE line

\* str::trim
trim(s) ==
    IF \A i \in 1..Len(s) : IsWhitespace(s[i]) THEN <<>>
    ELSE SubSeq(s,
                CHOOSE i \in 1..Len(s) :
                    /\ ~IsWhitespace(s[i])
                    /\ \A j \in 1..(i - 1) : IsWhitespace(s[j]),
                CHOOSE i \in 1..Len(s) :
                    /\ ~IsWhitespace(s[i])
                    /\ \A j \in (i + 1)..Len(s) : IsWhitespace(s[j]))

\* str::split_whitespace, collected: the maximal runs of characters that
\* are not whitespace, in order.  `word` is the run being read.
RECURSIVE split_from(_, _, _, _)
split_from(s, i, word, tokens) ==
    IF i > Len(s)
    THEN (IF word = <<>> THEN tokens ELSE Append(tokens, word))
    ELSE IF IsWhitespace(s[i])
    THEN split_from(s, i + 1, <<>>,
                    IF word = <<>> THEN tokens ELSE Append(tokens, word))
    ELSE split_from(s, i + 1, Append(word, s[i]), tokens)

split_whitespace(s) == split_from(s, 1, <<>>, <<>>)

\* The digits of s from position i on, read as a decimal number no larger
\* than max: None on a character that is no digit and on a value above max
\* (the overflow error of str::parse)
RECURSIVE parse_digits(_, _, _, _)
parse_digits(s, i, acc, max) ==
    IF i > Len(s) THEN Some(acc)
    ELSE IF \A d \in 1..Len(Digits) : Digits[d] # s[i] THEN None
    ELSE IF acc > (max - ((CHOOSE d \in 1..Len(Digits) : Digits[d] = s[i]) - 1))
                      \div 10
    THEN None
    ELSE parse_digits(s, i + 1,
                      acc * 10 + (CHOOSE d \in 1..Len(Digits) : Digits[d] = s[i]) - 1,
                      max)

\* str::parse for an unsigned integer type whose largest value is max: one
\* leading `+` is allowed, at least one digit is needed
parse_unsigned(s, max) ==
    IF s = <<>> THEN None
    ELSE IF s[1] = "+"
    THEN (IF Len(s) = 1 THEN None ELSE parse_digits(s, 2, 0, max))
    ELSE parse_digits(s, 1, 0, max)

\* The check as it would be if it compared with > instead of >=
CheckRegister_off_by_one(register_num) ==
    IF ~register_num.some THEN AsmErr("UnknownRegister")
    ELSE IF register_num.val > NumRegisters THEN AsmErr("UnknownRegister")
    ELSE AsmOk(register_num.val)

\* if register_num >= 32 { Err } else { Ok(register_num as u8) }, on what
\* parse returned
CheckRegister(register_num) ==
    IF ~register_num.some THEN AsmErr("UnknownRegister")
    ELSE IF register_num.val >= NumRegisters THEN AsmErr("UnknownRegister")
    ELSE AsmOk(register_num.val)

\* Assembler::parse_register.  The usize the token is parsed into is held
\* up to I32Max: a larger number, like a number that overflows usize, ends
\* in UnknownRegister.
parse_register(token) ==
    IF token = <<>> \/ token[1] # "r" THEN AsmErr("UnknownRegister")
    ELSE CheckRegister(parse_unsigned(Tail(token), I32Max))

\* token.parse().map_err(..) of parse_value
ParsedValue(number) ==
    IF number.some THEN AsmOk(number.val) ELSE AsmErr("SyntaxError")

\* Assembler::parse_value: a label's value `as u16`, else the token parsed
\* as a u16
parse_value(table, token) ==
    IF token \in DOMAIN table THEN AsmOk(table[token] % U16Mod)
    ELSE ParsedValue(parse_unsigned(token, U16Mod - 1))

\* The two bytes as they would be with the low byte first
to_le_bytes(value) == <<value % 256, value \div 256>>

\* u16::to_be_bytes
to_be_bytes(value) == <<value \div 256, value % 256>>

\* The size estimate_instruction_size gives a line whose first token, in
\* upper case, is `mnemonic`
SizeOf(mnemonic) ==
    CASE mnemonic = <<"L", "O", "A", "D">> -> AsmOk(4)
      [] mnemonic \in {<<"A", "D", "D">>, <<"S", "U", "B">>, <<"M", "U", "L">>,
                       <<"D", "I", "V">>} -> AsmOk(4)
      [] mnemonic = <<"H", "L", "T">> -> AsmOk(1)
      [] OTHER -> AsmErr("UnknownInstruction")

\* Assembler::estimate_instruction_size
estimate_instruction_size(line) ==
    SizeOf(to_uppercase(split_whitespace(line)[1]))

\* HashMap::insert
Insert(table, label, address) ==
    [l \in DOMAIN table \cup {label} |->
        IF l = label THEN address ELSE table[l]]

\* first_pass_lines.push(line); current_address += size?
Pass1Instruction(st, line, size) ==
    IF size.err # ""
    THEN [st EXCEPT !.first_pass_lines = Append(@, line), !.err = size.err]
    ELSE [st EXCEPT !.first_pass_lines = Append(@, line),
                    !.current_address = @ + size.val]

\* The body of the first loop of compile once the comment is removed and
\* the line trimmed
Pass1Trimmed(st, line) ==
    IF line = <<>> THEN st
    ELSE IF line[Len(line)] = ":"
    THEN [st EXCEPT !.symbols =
             Insert(@, trim(SubSeq(line, 1, Len(line) - 1)), st.current_address)]
    ELSE Pass1Instruction(st, line, estimate_instruction_size(line))

\* The body of the first loop of compile for one line of the source.  st
\* holds the symbol table, first_pass_lines, current_address and the error
\* the call has returned with, if any.
Pass1Line(st, raw) ==
    IF st.err # "" THEN st ELSE Pass1Trimmed(st, trim(BeforeComment(raw)))

\* The first loop over the lines i..j of the source, in order; an error
\* returns from it.  The range is halved so that the depth of the
\* evaluation grows with the logarithm of the number of lines.
RECURSIVE pass1(_, _, _, _)
pass1(st, source, i, j) ==
    IF st.err # "" \/ i > j THEN st
    ELSE IF i = j THEN Pass1Line(st, source[i])
    ELSE pass1(pass1(st, source, i, (i + j) \div 2), source,
               ((i + j) \div 2) + 1, j)

\* bytecode.push(1); bytecode.push(register); extend with value.to_be_bytes()
PushLOAD(bytecode, register, value) ==
    IF register.err # "" THEN [err |-> register.err, bytecode |-> bytecode]
    ELSE IF value.err # "" THEN [err |-> value.err, bytecode |-> bytecode]
    ELSE [err |-> "",
          bytecode |-> bytecode \o <<1, register.val>> \o to_be_bytes(value.val)]

\* The "LOAD" arm of the match of the second loop
EmitLOAD(table, bytecode, tokens) ==
    IF Len(tokens) < 3 THEN [err |-> "SyntaxError", bytecode |-> bytecode]
    ELSE PushLOAD(bytecode, parse_register(tokens[2]),
                  parse_value(table, tokens[3]))

\* The four pushes as they would be without the last
PushArith_drops_last(bytecode, opcode, reg1, reg2, reg3) ==
    IF reg1.err # "" THEN [err |-> reg1.err, bytecode |-> bytecode]
    ELSE IF reg2.err # "" THEN [err |-> reg2.err, bytecode |-> bytecode]
    ELSE IF reg3.err # "" THEN [err |-> reg3.err, bytecode |-> bytecode]
    ELSE [err |-> "", bytecode |-> bytecode \o <<opcode, reg1.val, reg2.val>>]

\* bytecode.push(opcode) and the three registers
PushArith(bytecode, opcode, reg1, reg2, reg3) ==
    IF reg1.err # "" THEN [err |-> reg1.err, bytecode |-> bytecode]
    ELSE IF reg2.err # "" THEN [err |-> reg2.err, bytecode |-> bytecode]
    ELSE IF reg3.err # "" THEN [err |-> reg3.err, bytecode |-> bytecode]
    ELSE [err |-> "",
          bytecode |-> bytecode \o <<opcode, reg1.val, reg2.val, reg3.val>>]

\* The "ADD" | "SUB" | "MUL" | "DIV" arm
EmitArith(bytecode, tokens, opcode) ==
    IF Len(tokens) < 4 THEN [err |-> "SyntaxError", bytecode |-> bytecode]
    ELSE PushArith(bytecode, opcode, parse_register(tokens[2]),
                   parse_register(tokens[3]), parse_register(tokens[4]))

\* match tokens[0].to_uppercase().as_str()
Pass2Match(table, bytecode, tokens, mnemonic) ==
    CASE mnemonic = <<"L", "O", "A", "D">> -> EmitLOAD(table, bytecode, tokens)
      [] mnemonic = <<"A", "D", "D">> -> EmitArith(bytecode, tokens, 2)
      [] mnemonic = <<"S", "U", "B">> -> EmitArith(bytecode, tokens, 3)
      [] mnemonic = <<"M", "U", "L">> -> EmitArith(bytecode, tokens, 4)
      [] mnemonic = <<"D", "I", "V">> -> EmitArith(bytecode, tokens, 5)
      [] mnemonic = <<"H", "L", "T">> ->
            [err |-> "", bytecode |-> Append(bytecode, 0)]
      [] OTHER -> [err |-> "UnknownInstruction", bytecode |-> bytecode]

Pass2Tokens(table, bytecode, tokens) ==
    Pass2Match(table, bytecode, tokens, to_uppercase(tokens[1]))

\* The body of the second loop for one line of first_pass_lines.  st holds
\* the bytecode and the error the call has returned with, if any.
Pass2Line(table, st, line) ==
    IF st.err # "" THEN st
    ELSE Pass2Tokens(table, st.bytecode, split_whitespace(line))

\* The second loop over the lines i..j of first_pass_lines, in order
RECURSIVE pass2(_, _, _, _, _)
pass2(table, st, lines, i, j) ==
    IF st.err # "" \/ i > j THEN st
    ELSE IF i = j THEN Pass2Line(table, st, lines[i])
    ELSE pass2(table, pass2(table, st, lines, i, (i + j) \div 2), lines,
               ((i + j) \div 2) + 1, j)

\* The length compile pads the bytecode to
PadLength == 32

\* The padding as it would be if it resized the bytecode to 32 bytes
pad_resizes(bytecode) ==
    [k \in 1..PadLength |-> IF k <= Len(bytecode) THEN bytecode[k] ELSE 0]

\* while bytecode.len() < 32 { bytecode.push(0) }
RECURSIVE pad(_)
pad(bytecode) ==
    IF Len(bytecode) < PadLength THEN pad(Append(bytecode, 0)) ELSE bytecode

\* What compile returns, given what its two loops left: the error of the
\* first loop, else that of the second, else the padded bytecode.  The
\* symbol table is the one the first loop left in either case; `emitted` is
\* the length of the bytecode before the padding.
compile_result(p1, p2) ==
    IF p1.err # ""
    THEN [ret |-> p1.err, bytes |-> <<>>, emitted |-> 0, symbols |-> p1.symbols]
    ELSE IF p2.err # ""
    THEN [ret |-> p2.err, bytes |-> <<>>, emitted |-> 0, symbols |-> p1.symbols]
    ELSE [ret |-> "Ok", bytes |-> pad(p2.bytecode),
          emitted |-> Len(p2.bytecode), symbols |-> p1.symbols]

compile_passes(p1) ==
    compile_result(p1,
        IF p1.err # "" THEN [err |-> "", bytecode |-> <<>>]
        ELSE pass2(p1.symbols, [err |-> "", bytecode |-> <<>>],
                   p1.first_pass_lines, 1, Len(p1.first_pass_lines)))

\* compile as it would be if it cleared the symbol table first
compile_clears_table(table, source) ==
    compile_passes(pass1([err |-> "", symbols |-> [label \in {} |-> 0],
                          first_pass_lines |-> <<>>, current_address |-> 0],
                         source, 1, Len(source)))

\* Assembler::compile on an assembler whose symbol table is `table`
compile(table, source) ==
    compile_passes(pass1([err |-> "", symbols |-> table,
                          first_pass_lines |-> <<>>, current_address |-> 0],
                         source, 1, Len(source)))

\* Assembler::new
new_symbols == [label \in {} |-> 0]

-----------------------------------------------------------------------------
(* The byte buffers the model loads *)

\* Leaves r0 = 0, r1 = 1, r2 = 65535, r3 = 32768, r4 = 7, r5 = 65536,
\* r6 = -32768, r7 = I32Min, r8 = -1, r9 = I32Max, r10 = -7.
Prelude ==
    <<1, 1, 0, 1,      1, 2, 255, 255,  1, 3, 128, 0,  1, 4, 0, 7,
      2, 2, 1, 5,      3, 0, 3, 6,      4, 6, 5, 7,    3, 0, 1, 8,
      3, 8, 7, 9,      3, 0, 4, 10>>

\* The end-to-end program of the specification, as Assembler::compile
\* returns it (29 bytes and three bytes of padding)
EndToEnd ==
    <<1, 0, 0, 10,  1, 1, 0, 5,  1, 2, 0, 3,  4, 0, 1, 3,  2, 3, 2, 4,
      3, 4, 1, 5,   5, 4, 2, 6,  0,  0, 0, 0>>

\* Registers 0..MaxSrcReg are the operands of the arithmetic programs;
\* DestReg is a destination the prelude leaves at 0.
MaxSrcReg == 10
DestReg == 11

ArithPrograms ==
    { Prelude \o <<opc, a, b, c>> :
        opc \in 2..5, a \in 0..MaxSrcReg, b \in 0..MaxSrcReg,
        c \in {DestReg} }

AliasPrograms ==
    UNION { { Prelude \o <<opc, a, b, a>>, Prelude \o <<opc, a, b, b>> } :
            opc \in 2..5, a \in {1, 2, 4, 7, 10}, b \in {0, 1, 4, 8, 9} }

BadRegisterPrograms ==
    { Prelude \o <<opc>> \o t :
        opc \in 2..5,
        t \in {<<32, 1, 11>>, <<1, 32, 11>>, <<1, 1, 32>>, <<255, 255, 255>>,
               <<31, 31, 31>>} }

LoadPrograms ==
    { Prelude \o <<1, r, hi, lo>> :
        r \in {0, 5, 31, 32, 255}, hi \in {0, 1, 255}, lo \in {0, 2, 255} }

JumpPrograms ==
    { Prelude \o <<opc, r>> \o t :
        opc \in {6, 7}, r \in (0..MaxSrcReg) \cup {31, 32, 255},
        t \in {<<>>, <<200, 0>>} }

TruncatedPrograms ==
    { SubSeq(<<opc, 1, 2, 3>>, 1, n) : opc \in 1..7, n \in 1..4 }

\* An instruction cut short after the prelude has filled the registers
CutPrograms ==
    { Prelude \o SubSeq(<<opc, 2, 4, 3>>, 1, n) : opc \in 1..7, n \in 1..3 }

\* A DIV that leaves the remainder 1, then a byte outside the opcode table
IllegalPrograms ==
    { Prelude \o <<5, 2, 4, 11>> \o <<b>> : b \in {8, 9, 127, 128, 200, 255} }

\* Every buffer of at most MaxRawLen bytes over RawBytes
MaxRawLen == 3
RawBytes == {0, 1, 6, 7, 200}
RawPrograms == UNION { [1..n -> RawBytes] : n \in 0..MaxRawLen }

Scenarios == { EndToEnd, <<0>>, <<200>>, <<0, 1, 0, 0, 5>>,
               <<1, 0, 0, 5, 0, 1, 1, 0, 9>> }

Programs ==
    ArithPrograms \cup AliasPrograms \cup BadRegisterPrograms
        \cup LoadPrograms \cup JumpPrograms \cup TruncatedPrograms
        \cup CutPrograms \cup IllegalPrograms \cup RawPrograms \cup Scenarios

\* The text of the sources the model compiles: the decimal digits of n, the
\* token of register n, tokens joined by one space
RECURSIVE Dec(_)
Dec(n) == IF n < 10 THEN <<Digits[n + 1]>>
          ELSE Append(Dec(n \div 10), Digits[(n % 10) + 1])

Reg(n) == <<"r">> \o Dec(n)

RECURSIVE Words(_)
Words(tokens) ==
    IF Len(tokens) = 1 THEN tokens[1]
    ELSE tokens[1] \o <<" ">> \o Words(Tail(tokens))

W_HLT == <<"H", "L", "T">>
W_LOAD == <<"L", "O", "A", "D">>
W_ADD == <<"A", "D", "D">>
W_SUB == <<"S", "U", "B">>
W_MUL == <<"M", "U", "L">>
W_DIV == <<"D", "I", "V">>
W_JMP == <<"J", "M", "P">>
W_JMPF == <<"J", "M", "P", "F">>

Indent == <<" ", " ", " ", " ">>
Note == <<" ", " ", ";", " ", "r", "3", " ", "=", " ", "r", "0">>

\* asm_code of main: blank lines, comment lines and eight instructions,
\* indented and commented
MainSource ==
    << <<>>,
       Indent \o <<";", " ", "p", "r", "o", "g", "r", "a", "m">>,
       Indent \o Words(<<W_LOAD, Reg(0), Dec(10)>>) \o Note,
       Indent \o Words(<<W_LOAD, Reg(1), Dec(5)>>) \o Note,
       Indent \o Words(<<W_LOAD, Reg(2), Dec(3)>>) \o Note,
       Indent,
       Indent \o <<";", " ", "m", "u", "l">>,
       Indent \o Words(<<W_MUL, Reg(0), Reg(1), Reg(3)>>) \o Note,
       Indent,
       Indent \o Words(<<W_ADD, Reg(3), Reg(2), Reg(4)>>) \o Note,
       Indent,
       Indent \o Words(<<W_SUB, Reg(4), Reg(1), Reg(5)>>) \o Note,
       Indent,
       Indent \o Words(<<W_DIV, Reg(4), Reg(2), Reg(6)>>) \o Note,
       Indent,
       Indent \o W_HLT \o Note,
       Indent >>

\* Label names, and the line that defines a label
T_a == <<"a">>
T_b == <<"b">>
T_end == <<"e", "n", "d">>
Define(name) == Append(name, ":")

\* `LOAD rk v` alone, for every register and the values of RoundTripValues
RoundTripValues == {0, 1, 255, 256, 500, 65535}
RoundTripSources ==
    { << Words(<<W_LOAD, Reg(k), Dec(v)>>) >> :
        k \in 0..(NumRegisters - 1), v \in RoundTripValues }

\* One well-formed line for each mnemonic of the instruction table, in upper
\* and in lower case, and two mnemonics the table does not have
MnemonicLines ==
    { W_HLT,
      Words(<<W_LOAD, Reg(1), Dec(258)>>),
      Words(<<W_ADD, Reg(1), Reg(2), Reg(3)>>),
      Words(<<W_SUB, Reg(1), Reg(2), Reg(3)>>),
      Words(<<W_MUL, Reg(1), Reg(2), Reg(3)>>),
      Words(<<W_DIV, Reg(1), Reg(2), Reg(3)>>),
      Words(<<W_JMP, Reg(1)>>),
      Words(<<W_JMPF, Reg(1)>>),
      <<"h", "l", "t">>,
      <<"H", "l", "t">>,
      Words(<<<<"l", "o", "a", "d">>, Reg(1), Dec(258)>>),
      Words(<<<<"d", "i", "v">>, Reg(1), Reg(2), Reg(3)>>),
      Words(<<<<"j", "m", "p">>, Reg(1)>>),
      <<"N", "O", "P">>,
      Words(<<<<"L", "O", "A", "D", "X">>, Reg(1), Dec(258)>>) }

MnemonicSources ==
    { <<line>> : line \in MnemonicLines }
        \cup { <<line, Define(T_a)>> : line \in MnemonicLines }

\* Tokens in a register position: r0..r31 at both ends, numbers of 32 and
\* more (the last one above every usize), tokens that do not start with `r`,
\* and tokens that start with `r` and are not rN
RegisterTokens ==
    { Reg(0), Reg(9), Reg(10), Reg(31),
      Reg(32), Reg(33), Reg(255), Reg(256), Reg(65536),
      <<"r", "9", "9", "9", "9", "9", "9", "9", "9", "9", "9", "9", "9", "9",
        "9", "9", "9", "9", "9", "9", "9", "9">>,
      <<"R", "1">>, <<"x", "1">>, <<"1">>, <<"$", "r", "1">>, <<"-", "r", "1">>,
      <<"r">>, <<"r", "-", "1">>, <<"r", "+", "5">>, <<"r", "0", "7">>,
      <<"r", "1", "a">>, <<"r", "r", "1">> }

RegisterLines ==
    UNION { { Words(<<W_LOAD, t, Dec(5)>>),
              Words(<<W_ADD, t, Reg(1), Reg(2)>>),
              Words(<<W_SUB, Reg(1), t, Reg(2)>>),
              Words(<<W_DIV, Reg(1), Reg(2), t>>) } : t \in RegisterTokens }

RegisterSources ==
    { <<line>> : line \in RegisterLines }
        \cup { <<Words(<<W_LOAD, Reg(3), Dec(7)>>), line>> :
                 line \in RegisterLines }

\* Every source of at most MaxLines lines over LabelLines: labels defined
\* before and after their use, twice, or not at all
MaxLines == 3
LabelLines ==
    { Define(T_a), Define(T_b), W_HLT,
      Words(<<W_LOAD, Reg(0), T_a>>),
      Words(<<W_LOAD, Reg(1), T_b>>),
      Words(<<W_ADD, Reg(0), Reg(1), Reg(2)>>) }
LabelSources == UNION { [1..n -> LabelLines] : n \in 0..MaxLines }

\* n lines `LOAD r0 0`
Loads(n) == [i \in 1..n |-> Words(<<W_LOAD, Reg(0), Dec(0)>>)]

\* Sources that emit fewer than 32 bytes, exactly 32, and more
PaddingSources ==
    { [i \in 1..n |-> W_HLT] : n \in {1, 31, 32, 33} }
        \cup { Loads(n) : n \in {7, 8, 9} }
        \cup { Loads(8) \o <<W_HLT>>, MainSource,
               Loads(9) \o <<Define(T_end), Words(<<W_LOAD, Reg(1), T_end>>)>> }

\* Leaves r1 = i32::MIN and r3 = -1 and divides the one by the other
DivOverflowSource ==
    << Words(<<W_LOAD, Reg(1), Dec(32768)>>),
       Words(<<W_LOAD, Reg(2), Dec(256)>>),
       Words(<<W_MUL, Reg(2), Reg(2), Reg(2)>>),
       Words(<<W_SUB, Reg(0), Reg(1), Reg(1)>>),
       Words(<<W_MUL, Reg(1), Reg(2), Reg(1)>>),
       Words(<<W_LOAD, Reg(3), Dec(1)>>),
       Words(<<W_SUB, Reg(0), Reg(3), Reg(3)>>),
       Words(<<W_DIV, Reg(1), Reg(3), Reg(4)>>) >>

\* Lines that are malformed, or unusual and accepted; a HLT, a division by
\* zero and a division that overflows before the end of the source
OddSources ==
    { << Words(<<W_LOAD, Reg(1)>>) >>,
      << Words(<<W_ADD, Reg(1), Reg(2)>>) >>,
      << Words(<<W_ADD, Reg(32), Reg(2)>>) >>,
      << Words(<<W_LOAD, Reg(1), Dec(65536)>>) >>,
      << Words(<<W_LOAD, Reg(1), <<"-", "1">>>>) >>,
      << Words(<<W_LOAD, Reg(1), <<"+", "5">>>>) >>,
      << Words(<<W_LOAD, Reg(1), <<"z", "z">>>>) >>,
      << Words(<<W_LOAD, <<"x", "1">>, <<"z", "z">>>>) >>,
      << Words(<<W_LOAD, Reg(1), Dec(5), Dec(6)>>) >>,
      << Words(<<W_HLT, Reg(1)>>) >>,
      << <<":">> >>,
      << W_HLT, Define(Dec(500)) >>,
      << Indent \o Define(T_a) \o Note, <<"\t">> \o W_HLT \o <<"\r">>,
         Words(<<W_LOAD, Reg(4), T_a>>) \o <<";">> >>,
      << W_HLT, Define(T_a), <<"N", "O", "P">> >>,
      << W_HLT, W_HLT, Define(T_b), Words(<<W_LOAD, Reg(1), <<"z", "z">>>>) >>,
      << Words(<<W_LOAD, Reg(1), Dec(7)>>), W_HLT,
         Words(<<W_LOAD, Reg(4), Dec(9)>>) >>,
      << Words(<<W_LOAD, Reg(1), Dec(7)>>),
         Words(<<W_DIV, Reg(1), Reg(2), Reg(3)>>),
         Words(<<W_LOAD, Reg(4), Dec(9)>>) >>,
      DivOverflowSource }

\* A HLT, LongLoads lines `LOAD r0 0`, then a label, 65537 bytes from the
\* start, and a LOAD of it
LongLoads == 16384
LongSource ==
    <<W_HLT>> \o Loads(LongLoads)
        \o <<Define(T_end), Words(<<W_LOAD, Reg(1), T_end>>)>>

\* The sources of the first call of compile and of the calls after it
FirstSources ==
    RoundTripSources \cup MnemonicSources \cup RegisterSources
        \cup LabelSources \cup PaddingSources \cup OddSources \cup {LongSource}

LaterSources ==
    { << Words(<<W_LOAD, Reg(0), T_a>>) >>,
      << Words(<<W_LOAD, Reg(2), T_b>>), Words(<<W_LOAD, Reg(1), T_end>>) >>,
      << W_HLT, W_HLT, Define(T_a), Words(<<W_LOAD, Reg(1), T_a>>) >>,
      << Words(<<W_LOAD, Reg(0), Dec(500)>>) >>,
      << Define(T_b), <<"N", "O", "P">> >> }

\* The calls of compile on one assembler
MaxCompiles == 2

\* The buffers a later add_program loads
Reloads == { <<>>, <<0, 1, 0, 0, 5>>, <<5, 1, 1, 1>> }

\* The indices get_register is asked for
GetIndices == {0, NumRegisters - 1, NumRegisters}

-----------------------------------------------------------------------------
(* The state machine *)

\* The record kept in `asm` before any call of compile
NoCompile == [source |-> <<>>, ret |-> "none", bytes |-> <<>>, emitted |-> 0,
              before |-> new_symbols, prior |-> "none"]

\* The record kept in `last`: the vm before the last instruction the last
\* call executed and what execute_instruction returned for it ("none" when
\* the call executed no instruction; then the vm before the call)
Before(vm, ret) == [ret |-> ret, registers |-> vm.registers, pc |-> vm.pc,
                    remainder |-> vm.remainder]

\* The record kept in `call`: the operation, its argument (the bytes of
\* add_program), what it returned, its calls of execute_instruction (where
\* each fetched, what it returned, where it left the program counter), and
\* the VM when the operation was called
Call(op, arg, ret, trace) ==
    [op |-> op, arg |-> arg, ret |-> ret, trace |-> trace,
     before |-> [registers |-> registers, pc |-> pc, remainder |-> remainder,
                 stopped |-> stopped]]

Install(vm) ==
    /\ registers' = vm.registers
    /\ pc' = vm.pc
    /\ program' = vm.program
    /\ remainder' = vm.remainder

\* A call can start: no panic has unwound the caller and no call of run is
\* still looping (execution is single-threaded and run blocks)
Idle == call.ret \notin {"panic", "never"}

\* What the VM is since the last load or reset, after an execute_instruction
\* that returned ret
Stopped(ret) ==
    IF ret = "Ok(false)" THEN "halted"
    ELSE IF ret \in Errors THEN "faulted"
    ELSE stopped

Init ==
    /\ \E bytes \in Programs :
          LET vm == add_program(new, bytes)
          IN  /\ registers = vm.registers
              /\ pc = vm.pc
              /\ program = vm.program
              /\ remainder = vm.remainder
              /\ call = [op |-> "add_program", arg |-> bytes, ret |-> "()",
                         trace |-> <<>>,
                         before |-> [registers |-> new.registers,
                                     pc |-> new.pc,
                                     remainder |-> new.remainder,
                                     stopped |-> "no"]]
    /\ overflowChecks \in BOOLEAN
    /\ last = Before(new, "none")
    /\ stopped = "no"
    /\ session = "fresh"
    /\ symbols = new_symbols
    /\ asm = NoCompile
    /\ compiles = 0

AddProgram(bytes) ==
    /\ Idle
    /\ Install(add_program(VMState, bytes))
    /\ call' = Call("add_program", bytes, "()", <<>>)
    /\ last' = Before(VMState, "none")
    /\ stopped' = "no"
    /\ session' = "fresh"
    /\ UNCHANGED <<overflowChecks, symbols, asm, compiles>>

Reset ==
    /\ Idle
    /\ Install(reset(VMState))
    /\ call' = Call("reset", <<>>, "()", <<>>)
    /\ last' = Before(VMState, "none")
    /\ stopped' = "no"
    /\ session' = "fresh"
    /\ UNCHANGED <<overflowChecks, symbols, asm, compiles>>

\* session: "stepping" while only run_once has been called since the load
\* and each call returned Ok(true); "stepped" once such a drive has ended
\* with Ok(false) or an error; "ran" after one run from the fresh load
RunOnce ==
    /\ Idle
    /\ \E r \in {run_once(VMState)} :
           /\ Install(r.vm)
           /\ call' = Call("run_once", <<>>, r.ret, <<Executes(VMState, r)>>)
           /\ last' = Before(VMState, r.ret)
           /\ stopped' = Stopped(r.ret)
           /\ session' = IF session \in {"fresh", "stepping"}
                         THEN (IF r.ret = "Ok(true)" THEN "stepping"
                               ELSE IF r.ret = "panic" THEN "other"
                               ELSE "stepped")
                         ELSE "other"
    /\ UNCHANGED <<overflowChecks, symbols, asm, compiles>>

Run ==
    /\ Idle
    /\ \E r \in {run(VMState)} :
       LET n == Len(r.trace)
       IN  /\ Install(r.vm)
           /\ call' = Call("run", <<>>, r.ret, r.trace)
           /\ last' = Before(r.prev, IF n = 0 THEN "none" ELSE r.trace[n].ret)
           /\ stopped' = IF n = 0 THEN stopped ELSE Stopped(r.trace[n].ret)
           /\ session' = IF session = "fresh" THEN "ran" ELSE "other"
    /\ UNCHANGED <<overflowChecks, symbols, asm, compiles>>

Next ==
    \/ \E bytes \in Reloads : AddProgram(bytes)
    \/ Reset
    \/ RunOnce
    \/ Run

Spec == Init /\ [][Next]_vars

-----------------------------------------------------------------------------
(* The assembler driven by a caller, who calls compile, at most          *)
(* MaxCompiles times, then loads what the last call returned into a new VM *)
(* and runs it, as main does                                               *)

AsmInit ==
    /\ registers = new.registers
    /\ pc = new.pc
    /\ program = new.program
    /\ remainder = new.remainder
    /\ overflowChecks \in BOOLEAN
    /\ call = [op |-> "new", arg |-> <<>>, ret |-> "()", trace |-> <<>>,
               before |-> [registers |-> new.registers, pc |-> new.pc,
                           remainder |-> new.remainder, stopped |-> "no"]]
    /\ last = Before(new, "none")
    /\ stopped = "no"
    /\ session = "fresh"
    /\ symbols = new_symbols
    /\ asm = NoCompile
    /\ compiles = 0

\* assembler.compile(source)
Compile(source) ==
    /\ compiles < MaxCompiles
    /\ call.op = "new"
    /\ \E r \in {compile(symbols, source)} :
           /\ symbols' = r.symbols
           /\ asm' = [source |-> source, ret |-> r.ret, bytes |-> r.bytes,
                      emitted |-> r.emitted, before |-> symbols,
                      prior |-> asm.ret]
    /\ compiles' = compiles + 1
    /\ UNCHANGED vmVars

\* vm.add_program(bytecode) with the bytecode the last compile returned
LoadCompiled ==
    /\ asm.ret = "Ok"
    /\ AddProgram(asm.bytes)

\* vm.run() on the program just loaded
RunCompiled ==
    /\ call.op = "add_program"
    /\ Run

AsmNext ==
    \/ \E source \in (IF compiles = 0 THEN FirstSources ELSE LaterSources) :
          Compile(source)
    \/ LoadCompiled
    \/ RunCompiled

AsmSpec == AsmInit /\ [][AsmNext]_vars

-----------------------------------------------------------------------------
(* One call of VM::run on the buffer just loaded, a pass of its loop at a   *)
(* time.  While the call is in progress call.ret is "running", call.trace   *)
(* holds the last pass alone and call.arg the parity of the number of       *)
(* passes made, which tells a pass that comes back to the VM it started     *)
(* from apart from no pass at all.                                          *)

\* What run returns once execute_instruction has returned ret: `?` returns
\* the error, `break` leaves the loop on false, true goes round again
RunOutcome(ret) ==
    IF ret \in Errors \cup {"panic"} THEN ret
    ELSE IF ret = "Ok(false)" THEN "Ok(())"
    ELSE "running"

\* vm.run() is called
RunBegin ==
    /\ call.op = "add_program"
    /\ call' = Call("run", <<0>>, "running", <<>>)
    /\ session' = "ran"
    /\ UNCHANGED <<registers, pc, program, remainder, overflowChecks, last,
                   stopped, symbols, asm, compiles>>

\* The loop condition holds: one pass, execute_instruction and what the
\* body does with its result
RunPass ==
    /\ call.op = "run"
    /\ call.ret = "running"
    /\ RunLoopCondition(VMState)
    /\ \E r \in {execute_instruction(VMState)} :
           /\ Install(r.vm)
           /\ call' = [call EXCEPT !.ret = RunOutcome(r.ret),
                                   !.arg = <<1 - call.arg[1]>>,
                                   !.trace = <<Executes(VMState, r)>>]
           /\ last' = Before(VMState, r.ret)
           /\ stopped' = Stopped(r.ret)
    /\ UNCHANGED <<overflowChecks, session, symbols, asm, compiles>>

\* The loop condition fails: run returns Ok(())
RunReturn ==
    /\ call.op = "run"
    /\ call.ret = "running"
    /\ ~RunLoopCondition(VMState)
    /\ call' = [call EXCEPT !.ret = "Ok(())"]
    /\ UNCHANGED <<registers, pc, program, remainder, overflowChecks, last,
                   stopped, session, symbols, asm, compiles>>

RunNext == RunBegin \/ RunPass \/ RunReturn

\* RunPass can be taken: its guard, for execute_instruction is total and a
\* pass changes call.arg.  This is ENABLED <<RunPass>>_vars, written out.
RunPassEnabled ==
    call.op = "run" /\ call.ret = "running" /\ RunLoopCondition(VMState)

\* run has no suspension point: a call in progress makes its next pass, or
\* returns.  Weak fairness of RunPass, with its enabling condition written
\* out, and of RunReturn.
RunFairness ==
    /\ []<>(~RunPassEnabled) \/ []<><<RunPass>>_vars
    /\ WF_vars(RunReturn)

RunSpec == Init /\ [][RunNext]_vars /\ RunFairness

-----------------------------------------------------------------------------
(* What the claims speak of *)

Zeroed == [i \in 0..(NumRegisters - 1) |-> 0]

\* The last call fetched an instruction, and `last` is the VM before it
Executed == last.ret # "none" /\ UsizeLt(last.pc, Len(program))

\* The opcode byte of that instruction and the k-th byte after it
OpByte == program[last.pc.lo + 1]
Operand(k) == program[last.pc.lo + 1 + k]

\* The buffer holds n bytes after the opcode byte
OperandsPresent(n) == last.pc.lo + n < Len(program)

\* The step changed neither a register nor the remainder
NothingWritten == registers = last.registers /\ remainder = last.remainder

Returned == call.ret \in Errors \cup {"Ok(true)", "Ok(false)", "Ok(())"}

-----------------------------------------------------------------------------
(* C1: from any reachable state, add_program(bytes) leaves the loaded      *)
(* program equal to bytes, all 32 registers 0, the program counter 0 and   *)
(* the remainder 0.                                                        *)
C1_AddProgramResets ==
    call.op = "add_program" =>
        /\ program = call.arg
        /\ registers = Zeroed
        /\ pc = Usize(0)
        /\ remainder = U32(0)

\* add_program was called on a faulted VM whose registers, program counter
\* and remainder were all nonzero, with bytes other than the loaded ones
C1_Witness ==
    /\ call.op = "add_program"
    /\ call.before.stopped = "faulted"
    /\ call.before.registers # Zeroed
    /\ call.before.pc # Usize(0)
    /\ call.before.remainder # U32(0)
    /\ call.arg = <<0, 1, 0, 0, 5>>

(* C2: stepping and running are observably equivalent: from a fresh load,  *)
(* run_once repeated until it returns Ok(false) or an error ends with the  *)
(* registers, program counter, remainder and success-or-error outcome of   *)
(* one run of the same freshly loaded buffer.                              *)
C2_SteppingEqualsRunning ==
    session = "stepped" =>
        LET r == run(add_program(new, program))
        IN  /\ r.vm.registers = registers
            /\ r.vm.pc = pc
            /\ r.vm.remainder = remainder
            /\ IF call.ret \in Errors
               THEN r.ret = call.ret
               ELSE r.ret = "Ok(())"

(* C3: a run that returns executed its instructions in program-counter     *)
(* order, each fetched inside the buffer where the one before left the     *)
(* program counter, and stopped at the first of: a HLT (the program        *)
(* counter one byte past it, the registers as before it), the program      *)
(* counter at or past the end of the buffer (returning Ok), or an error    *)
(* (returned); nothing was executed after that.  Run on the buffer <<0>>   *)
(* freshly loaded leaves every register 0 and the program counter 1.       *)
C3_RunStopsAtFirstEvent ==
    (call.op = "run" /\ Returned) =>
        LET t == call.trace
            n == Len(t)
        IN  /\ \A i \in 1..n : UsizeLt(t[i].at, Len(program))
            /\ n > 0 => t[1].at = call.before.pc /\ t[n].next = pc
            /\ n = 0 => pc = call.before.pc /\ registers = call.before.registers
            /\ \A i \in 1..(n - 1) :
                  t[i].ret = "Ok(true)" /\ t[i + 1].at = t[i].next
            /\ call.ret \in Errors => n > 0 /\ t[n].ret = call.ret
            /\ call.ret = "Ok(())" =>
                  \/ /\ n > 0
                     /\ t[n].ret = "Ok(false)"
                     /\ program[t[n].at.lo + 1] = 0
                     /\ pc = Usize(t[n].at.lo + 1)
                     /\ registers = last.registers
                  \/ /\ n = 0 \/ t[n].ret = "Ok(true)"
                     /\ ~UsizeLt(pc, Len(program))
            /\ (program = <<0>> /\ session = "ran") =>
                  registers = Zeroed /\ pc = Usize(1)

\* A run executed eight instructions, stopped at a HLT and left bytes of the
\* buffer unexecuted after it
C3_Witness ==
    /\ call.op = "run"
    /\ call.ret = "Ok(())"
    /\ Len(call.trace) = 8
    /\ last.ret = "Ok(false)"
    /\ UsizeLt(pc, Len(program))
    /\ registers # Zeroed

(* C4: run_once returns Ok(false) when execution should stop, that is when *)
(* a HLT was reached or the program counter is at or past the end of the   *)
(* buffer, and Ok(true) otherwise.                                         *)
C4_RunOnceReportsStop ==
    (call.op = "run_once" /\ call.ret \in {"Ok(true)", "Ok(false)"}) =>
        (call.ret = "Ok(false)") = (OpByte = 0 \/ ~UsizeLt(pc, Len(program)))

(* C5: once a HLT has been executed or a call has returned a VMError, every *)
(* later run or run_once leaves the registers, the program counter and the *)
(* remainder unchanged, until add_program or reset.                        *)
C5_HaltedAndFaultedAreTerminal ==
    (call.op \in {"run", "run_once"} /\ call.before.stopped # "no") =>
        /\ registers = call.before.registers
        /\ pc = call.before.pc
        /\ remainder = call.before.remainder

(* C6: a DIV whose three register indices are below 32 and whose divisor  *)
(* register holds 0 fails with DivisionByZero before any write: every      *)
(* register and the remainder hold the values they had before the step.    *)
C6_DivByZeroWritesNothing ==
    (/\ Executed
     /\ OpByte = 5
     /\ OperandsPresent(3)
     /\ \A k \in 1..3 : Operand(k) < NumRegisters
     /\ last.registers[Operand(2)] = 0) =>
        /\ last.ret = "DivisionByZero"
        /\ call.ret = "DivisionByZero"
        /\ NothingWritten

\* A DIV by a zero register failed with a nonzero dividend in the
\* destination register
C6_Witness ==
    /\ Executed
    /\ OpByte = 5
    /\ OperandsPresent(3)
    /\ \A k \in 1..3 : Operand(k) < NumRegisters
    /\ last.registers[Operand(2)] = 0
    /\ Operand(3) = Operand(1)
    /\ last.registers[Operand(3)] = I32Min
    /\ last.ret = "DivisionByZero"

\* U32 of a value that may be negative: no u32 is a negative integer
U32OfInteger(r) == IF r >= 0 THEN U32(r) ELSE <<-1, r>>

(* C7: a DIV with a nonzero divisor and three register indices below 32    *)
(* succeeds for every pair of values, the destination being any register:  *)
(* the destination receives the integer quotient q of the values a and b   *)
(* the dividend and divisor registers held before the step, and the        *)
(* remainder receives their integer remainder a - q * b.                   *)
C7_DivQuotientAndRemainder ==
    (/\ Executed
     /\ OpByte = 5
     /\ OperandsPresent(3)
     /\ \A k \in 1..3 : Operand(k) < NumRegisters
     /\ last.registers[Operand(2)] # 0) =>
        LET a == last.registers[Operand(1)]
            b == last.registers[Operand(2)]
            q == registers[Operand(3)]
            r == a - q * b
        IN  /\ last.ret = "Ok(true)"
            /\ IF b > 0 THEN -b < r /\ r < b ELSE b < r /\ -r > b
            /\ r = 0 \/ (r < 0) = (a < 0)
            /\ remainder = U32OfInteger(r)

\* The exact result of ADD, SUB or MUL of a and b lies in I32Min..I32Max,
\* decided on the bounds of the range without forming the result
Fits(opc, a, b) ==
    CASE opc = 2 -> IF b >= 0 THEN a <= I32Max - b ELSE a >= I32Min - b
      [] opc = 3 -> IF b >= 0 THEN a >= I32Min + b ELSE a <= I32Max + b
      [] opc = 4 ->
            IF a = 0 \/ b = 0 THEN TRUE
            ELSE IF b = -1 THEN a # I32Min
            ELSE IF b = I32Min THEN a = 1
            ELSE IF b > 0
            THEN (I32Min + (b - 1)) \div b <= a /\ a <= I32Max \div b
            ELSE -(I32Max \div (-b)) <= a /\ a <= I32Min \div b

Exact(opc, a, b) ==
    CASE opc = 2 -> a + b
      [] opc = 3 -> a - b
      [] opc = 4 -> a * b

(* C8: for ADD, SUB and MUL with valid register indices the destination    *)
(* receives the exact result when it fits a signed 32-bit integer and 0    *)
(* when it does not; the step does not fail, trap or wrap, no other        *)
(* register changes and the remainder is unchanged.                        *)
C8_ArithmeticExactOrZero ==
    (/\ Executed
     /\ OpByte \in 2..4
     /\ OperandsPresent(3)
     /\ \A k \in 1..3 : Operand(k) < NumRegisters) =>
        LET a == last.registers[Operand(1)]
            b == last.registers[Operand(2)]
        IN  /\ last.ret = "Ok(true)"
            /\ registers =
                  [last.registers EXCEPT ![Operand(3)] =
                      IF Fits(OpByte, a, b) THEN Exact(OpByte, a, b) ELSE 0]
            /\ remainder = last.remainder

\* A MUL of I32Min by -1 overflowed and cleared its destination, the register
\* that held I32Min
C8_Witness ==
    /\ Executed
    /\ OpByte = 4
    /\ OperandsPresent(3)
    /\ \A k \in 1..3 : Operand(k) < NumRegisters
    /\ last.registers[Operand(1)] = I32Min
    /\ last.registers[Operand(2)] = -1
    /\ last.registers[Operand(3)] = I32Min
    /\ registers[Operand(3)] = 0
    /\ last.ret = "Ok(true)"

(* C9: for LOAD and for ADD, SUB, MUL and DIV whose operand bytes are all  *)
(* present, a register-index byte of 32 or more makes the step fail with   *)
(* RegisterOutOfBounds and nothing is written; with a valid index LOAD     *)
(* stores hi * 256 + lo into the named register and changes no other.      *)
C9_RegisterIndexChecked ==
    (Executed /\ OpByte \in 1..5 /\ OperandsPresent(3)) =>
        /\ (OpByte = 1 /\ Operand(1) >= NumRegisters) =>
              last.ret = "RegisterOutOfBounds" /\ NothingWritten
        /\ (OpByte \in 2..5 /\ \E k \in 1..3 : Operand(k) >= NumRegisters) =>
              last.ret = "RegisterOutOfBounds" /\ NothingWritten
        /\ (OpByte = 1 /\ Operand(1) < NumRegisters) =>
              /\ last.ret = "Ok(true)"
              /\ registers = [last.registers EXCEPT
                                ![Operand(1)] = Operand(2) * 256 + Operand(3)]
              /\ remainder = last.remainder

\* A LOAD stored a value with two different nonzero bytes over a nonzero
\* register, the other registers holding nonzero values
C9_Witness ==
    /\ Executed
    /\ OpByte = 1
    /\ OperandsPresent(3)
    /\ Operand(1) = 5
    /\ Operand(2) = 1
    /\ Operand(3) = 2
    /\ last.registers[5] = 65536
    /\ registers[5] = 258
    /\ registers[7] = I32Min

(* C10: every register index is bounds-checked before it indexes the       *)
(* register file, in JMP and JMPF as in the other instructions, and by     *)
(* get_register: an index of 32 or more surfaces RegisterOutOfBounds and   *)
(* never an out-of-range access or trap.                                   *)
C10_EveryIndexBoundsChecked ==
    /\ \A index \in GetIndices :
          get_register(VMState, index).ret =
              IF index >= NumRegisters THEN "RegisterOutOfBounds" ELSE "Ok(value)"
    /\ (/\ Executed
        /\ OpByte \in {6, 7}
        /\ OperandsPresent(1)
        /\ Operand(1) >= NumRegisters) =>
          last.ret = "RegisterOutOfBounds"


\* The operand bytes the instruction table gives the opcode byte opc
OperandBytes(opc) == IF opc \in 1..5 THEN 3 ELSE IF opc \in 6..7 THEN 1 ELSE 0

(* C11: for LOAD, ADD, SUB, MUL, DIV, JMP and JMPF, when the buffer ends     *)
(* before all of the instruction's operand bytes the step fails with        *)
(* ProgramCounterOutOfBounds and writes no register.                        *)
C11_TruncatedOperandsFail ==
    (/\ Executed
     /\ OpByte \in 1..7
     /\ ~OperandsPresent(OperandBytes(OpByte))) =>
        /\ last.ret = "ProgramCounterOutOfBounds"
        /\ registers = last.registers

\* The last instruction was a JMP whose operand byte names a register below
\* 32, and `target` is what that register held
JumpedBy(target) ==
    /\ Executed
    /\ OpByte = 6
    /\ OperandsPresent(1)
    /\ Operand(1) < NumRegisters
    /\ last.registers[Operand(1)] = target

\* A value of a register taken as a program counter lies at or past the end
\* of the buffer (a negative value converts to a usize above every length)
PastEnd(target) == target < 0 \/ target >= Len(program)

JumpTargets == { registers[i] : i \in 0..(NumRegisters - 1) }
                  \cup { last.registers[i] : i \in 0..(NumRegisters - 1) }

(* C12 as stated: JMP sets the program counter to the value of the named    *)
(* register with no bounds check, and when that value is at or past the     *)
(* buffer length the next fetch fails with ProgramCounterOutOfBounds, under *)
(* run_once and under run alike: a run whose last instruction was such a    *)
(* JMP returns ProgramCounterOutOfBounds.                                   *)
C12_JumpOutOfRangeFaults ==
    \A target \in JumpTargets :
        JumpedBy(target) =>
            /\ last.ret = "Ok(true)"
            /\ target >= 0 => pc = Usize(target)
            /\ PastEnd(target) =>
                  /\ ~UsizeLt(pc, Len(program))
                  /\ run_once(VMState).ret = "ProgramCounterOutOfBounds"
                  /\ call.op = "run" => call.ret = "ProgramCounterOutOfBounds"

(* C12 amended: JMP sets the program counter to the value of the named      *)
(* register with no bounds check; when that value is at or past the buffer  *)
(* length, a run_once that follows fetches nothing, fails with              *)
(* ProgramCounterOutOfBounds and changes nothing, while a run whose last    *)
(* instruction was that JMP makes no further fetch and returns Ok.          *)
C12_JumpOutOfRangeEndsRun ==
    /\ \A target \in JumpTargets :
          JumpedBy(target) =>
              /\ last.ret = "Ok(true)"
              /\ target >= 0 => pc = Usize(target)
              /\ PastEnd(target) =>
                    /\ ~UsizeLt(pc, Len(program))
                    /\ call.op = "run" => call.ret = "Ok(())"
    /\ (call.op = "run_once" /\ ~UsizeLt(call.before.pc, Len(program))) =>
          /\ call.ret = "ProgramCounterOutOfBounds"
          /\ pc = call.before.pc
          /\ registers = call.before.registers
          /\ remainder = call.before.remainder
    /\ (call.op = "run" /\ ~UsizeLt(call.before.pc, Len(program))) =>
          /\ call.ret = "Ok(())"
          /\ call.trace = <<>>
          /\ pc = call.before.pc

\* A run ended on a JMP to 65535, far past the end of the buffer, and
\* returned Ok
C12_Witness ==
    /\ call.op = "run"
    /\ JumpedBy(65535)
    /\ pc = Usize(65535)
    /\ call.ret = "Ok(())"
    /\ Len(call.trace) = 11

\* The instruction table: the opcode of each byte 0..7
OpcodeTable == <<"HLT", "LOAD", "ADD", "SUB", "MUL", "DIV", "JMP", "JMPF">>

(* C13: decoding is total over the bytes 0..255: bytes 0..7 map to HLT,     *)
(* LOAD, ADD, SUB, MUL, DIV, JMP, JMPF and every byte 8..255 is an illegal  *)
(* opcode; fetching an illegal opcode at offset p fails with InvalidOpcode  *)
(* with the program counter at p + 1 and the registers and the remainder    *)
(* unchanged, and no byte 0..7 fails with InvalidOpcode.                    *)
C13_DecodeTotal ==
    /\ \A v \in 0..255 :
          OpcodeFrom(v) = IF v <= 7 THEN OpcodeTable[v + 1] ELSE "IGL"
    /\ (Executed /\ OpByte >= 8) =>
          /\ last.ret = "InvalidOpcode"
          /\ call.ret = "InvalidOpcode"
          /\ pc = Usize(last.pc.lo + 1)
          /\ NothingWritten
    /\ (Executed /\ OpByte <= 7) => last.ret # "InvalidOpcode"

\* The byte 8 was fetched at offset 44 with nonzero registers and a nonzero
\* remainder
C13_Witness ==
    /\ Executed
    /\ OpByte = 8
    /\ last.pc = Usize(44)
    /\ pc = Usize(45)
    /\ last.ret = "InvalidOpcode"
    /\ registers[7] = I32Min
    /\ remainder = U32(1)

(* C14: when run or run_once returns a VMError, the registers and the       *)
(* remainder are those the VM held before the failing instruction: the      *)
(* failing instruction wrote nothing and nothing was rolled back.           *)
C14_FaultKeepsPartialResults ==
    (call.op \in {"run", "run_once"} /\ call.ret \in Errors) =>
        /\ last.ret = call.ret
        /\ NothingWritten
        /\ call.op = "run_once" =>
              /\ registers = call.before.registers
              /\ remainder = call.before.remainder

\* A run failed on its eleventh instruction, a LOAD cut short, and the
\* registers the ten before it wrote are kept
C14_Witness ==
    /\ call.op = "run"
    /\ call.ret = "ProgramCounterOutOfBounds"
    /\ Len(call.trace) = 11
    /\ OpByte = 1
    /\ OperandsPresent(1)
    /\ Operand(1) = 2
    /\ registers[2] = 65535
    /\ registers[10] = -7
    /\ call.before.registers = Zeroed


-----------------------------------------------------------------------------
(* What the claims about the assembler speak of: the lines of the source   *)
(* of the last call of compile, and the instruction table of the           *)
(* specification                                                            *)

Cleaned(i) == trim(BeforeComment(asm.source[i]))
IsLabelLine(i) == Cleaned(i) # <<>> /\ Cleaned(i)[Len(Cleaned(i))] = ":"
IsInstructionLine(i) == Cleaned(i) # <<>> /\ ~IsLabelLine(i)
LabelOf(i) == trim(SubSeq(Cleaned(i), 1, Len(Cleaned(i)) - 1))
TokensOf(i) == split_whitespace(Cleaned(i))
MnemonicOf(i) == to_uppercase(TokensOf(i)[1])

TableMnemonics == <<W_HLT, W_LOAD, W_ADD, W_SUB, W_MUL, W_DIV, W_JMP, W_JMPF>>
TableSizes == <<1, 4, 4, 4, 4, 4, 2, 2>>
InTable(m) == \E k \in 1..Len(TableMnemonics) : TableMnemonics[k] = m
TableOpcode(m) == (CHOOSE k \in 1..Len(TableMnemonics) : TableMnemonics[k] = m) - 1

\* The bytes the table gives line i: 0 for a line that is no instruction
SizeOfLine(i) ==
    IF IsInstructionLine(i) /\ InTable(MnemonicOf(i))
    THEN TableSizes[TableOpcode(MnemonicOf(i)) + 1]
    ELSE 0

\* The sum of the sizes of the lines i..j
RECURSIVE SizeSum(_, _)
SizeSum(i, j) ==
    IF i > j THEN 0
    ELSE IF i = j THEN SizeOfLine(i)
    ELSE SizeSum(i, (i + j) \div 2) + SizeSum(((i + j) \div 2) + 1, j)

\* The sum of the sizes of the instruction lines before line i
OffsetOf(i) == SizeSum(1, i - 1)

\* The lines whose bytes are looked at one by one: the first LinesFromStart
\* and the last three
LinesFromStart == 40
LinesChecked ==
    { i \in 1..Len(asm.source) :
        i <= LinesFromStart \/ i > Len(asm.source) - 3 }

(* C15: for every source compile accepts, the buffer returned has length   *)
(* max(32, E), E being the number of bytes emitted for the instructions    *)
(* (the sum of their sizes in the instruction table); each instruction's   *)
(* opcode byte stands at the sum of the sizes of the instructions before   *)
(* it, every byte after the first E is 0, and nothing is cut off when E    *)
(* exceeds 32.                                                             *)
C15_PaddedNeverTruncated ==
    asm.ret = "Ok" =>
        /\ asm.emitted = SizeSum(1, Len(asm.source))
        /\ Len(asm.bytes) = IF asm.emitted < 32 THEN 32 ELSE asm.emitted
        /\ \A k \in (asm.emitted + 1)..Len(asm.bytes) : asm.bytes[k] = 0
        /\ \A i \in LinesChecked :
              IsInstructionLine(i) =>
                  asm.bytes[OffsetOf(i) + 1] = TableOpcode(MnemonicOf(i))

\* compile returned 40 bytes for ten LOADs, none of them padding
C15_Witness ==
    /\ asm.ret = "Ok"
    /\ Len(asm.source) = 11
    /\ asm.emitted = 40
    /\ Len(asm.bytes) = 40
    /\ asm.bytes[37] = 1
    /\ asm.bytes[40] = 36

(* C16: a label used as a LOAD value resolves to the byte offset of the    *)
(* label's definition, before or after the use: the value emitted is the   *)
(* sum of the sizes of the instruction lines before the label line, which  *)
(* is where the first byte of the instruction after the label stands in    *)
(* the buffer.  (For a label the source defines once.)                     *)
C16_LabelResolvesToOffset ==
    asm.ret = "Ok" =>
        \A j \in { j \in 1..Len(asm.source) : IsLabelLine(j) } :
            (\A d \in { d \in 1..Len(asm.source) : IsLabelLine(d) } :
                LabelOf(d) = LabelOf(j) => d = j) =>
                /\ \A i \in 1..Len(asm.source) :
                      (/\ IsInstructionLine(i)
                       /\ MnemonicOf(i) = W_LOAD
                       /\ TokensOf(i)[3] = LabelOf(j)) =>
                          asm.bytes[OffsetOf(i) + 3] * 256
                              + asm.bytes[OffsetOf(i) + 4] = OffsetOf(j)
                /\ \A k \in (j + 1)..Len(asm.source) :
                      (/\ IsInstructionLine(k)
                       /\ \A m \in (j + 1)..(k - 1) : ~IsInstructionLine(m)) =>
                          /\ OffsetOf(j) < asm.emitted
                          /\ asm.bytes[OffsetOf(j) + 1] = TableOpcode(MnemonicOf(k))

(* C17: for every register k of 0..31 and every value v, compiling the     *)
(* one-line source `LOAD rk v` (on an assembler that holds no label        *)
(* spelled like v), loading the result into a VM and running it returns    *)
(* Ok and leaves get_register(k) = v and every other register 0.           *)
C17_LoadRoundTrip ==
    Len(asm.source) = 1 =>
        \A k \in 0..(NumRegisters - 1), v \in RoundTripValues :
            (/\ asm.source[1] = Words(<<W_LOAD, Reg(k), Dec(v)>>)
             /\ Dec(v) \notin DOMAIN asm.before) =>
                /\ asm.ret = "Ok"
                /\ (program = asm.bytes /\ call.op = "run" /\ session = "ran") =>
                      /\ call.ret = "Ok(())"
                      /\ registers = [Zeroed EXCEPT ![k] = v]
                      /\ get_register(VMState, k) =
                            [ret |-> "Ok(value)", value |-> v]

\* `LOAD r31 65535` was compiled, loaded and run
C17_Witness ==
    /\ asm.source = << Words(<<W_LOAD, Reg(31), Dec(65535)>>) >>
    /\ program = asm.bytes
    /\ call.op = "run"
    /\ session = "ran"
    /\ registers[31] = 65535

\* A well-formed line for each mnemonic of the table, and its encoding
WellFormed ==
    << W_HLT,
       Words(<<W_LOAD, Reg(1), Dec(258)>>),
       Words(<<W_ADD, Reg(1), Reg(2), Reg(3)>>),
       Words(<<W_SUB, Reg(1), Reg(2), Reg(3)>>),
       Words(<<W_MUL, Reg(1), Reg(2), Reg(3)>>),
       Words(<<W_DIV, Reg(1), Reg(2), Reg(3)>>),
       Words(<<W_JMP, Reg(1)>>),
       Words(<<W_JMPF, Reg(1)>>) >>
Encoding ==
    << <<0>>, <<1, 1, 1, 2>>, <<2, 1, 2, 3>>, <<3, 1, 2, 3>>, <<4, 1, 2, 3>>,
       <<5, 1, 2, 3>>, <<6, 1>>, <<7, 1>> >>

(* C18: for each of the eight mnemonics of the instruction table, compile  *)
(* of a well-formed line succeeds and appends the opcode byte and operands *)
(* the table gives (1, 4, 4, 4, 4, 4, 2 and 2 bytes), and pass 1 advances  *)
(* the running offset by that size, which a label after the line records.  *)
C18_EveryMnemonicAssembles ==
    \A m \in 1..Len(WellFormed) :
        /\ (asm.source = <<WellFormed[m]>> /\ asm.before = new_symbols) =>
              /\ asm.ret = "Ok"
              /\ asm.emitted = TableSizes[m]
              /\ SubSeq(asm.bytes, 1, asm.emitted) = Encoding[m]
        /\ (asm.source = <<WellFormed[m], Define(T_a)>>) =>
              /\ asm.ret = "Ok"
              /\ symbols[T_a] = TableSizes[m]


\* The tokens r0..r31, and the register each names
Canonical(t) == \E n \in 0..(NumRegisters - 1) : t = Reg(n)
RegisterNumber(t) == CHOOSE n \in 0..(NumRegisters - 1) : t = Reg(n)

AllDigits(t) ==
    t # <<>> /\ \A i \in 1..Len(t) : \E d \in 1..Len(Digits) : Digits[d] = t[i]

\* The digits d write a number below 32, with or without leading zeros
WritesBelow32(d) ==
    \E n \in 0..(NumRegisters - 1), k \in 0..Len(d) :
        d = [i \in 1..k |-> "0"] \o Dec(n)

\* The tokens the claim says are refused: rN with N >= 32, and every token
\* that does not start with `r`
Refused(t) ==
    \/ t[1] # "r"
    \/ AllDigits(Tail(t)) /\ ~WritesBelow32(Tail(t))

\* The mnemonics compile knows, the tokens each needs and where its
\* register operands stand
Known(i) == MnemonicOf(i) \in {W_HLT, W_LOAD, W_ADD, W_SUB, W_MUL, W_DIV}
TokensNeeded(i) ==
    IF MnemonicOf(i) = W_LOAD THEN 3 ELSE IF MnemonicOf(i) = W_HLT THEN 1 ELSE 4
RegisterPositions(i) ==
    IF MnemonicOf(i) = W_LOAD THEN {2}
    ELSE IF MnemonicOf(i) = W_HLT THEN {}
    ELSE {2, 3, 4}

\* Line i is blank, a label, or an instruction with nothing wrong: a known
\* mnemonic, all its tokens, registers r0..r31 and, for LOAD, a label or a
\* number of at most four digits
Faultless(i) ==
    IsInstructionLine(i) =>
        /\ Known(i)
        /\ Len(TokensOf(i)) >= TokensNeeded(i)
        /\ \A p \in RegisterPositions(i) : Canonical(TokensOf(i)[p])
        /\ MnemonicOf(i) = W_LOAD =>
              \/ TokensOf(i)[3] \in DOMAIN symbols
              \/ AllDigits(TokensOf(i)[3]) /\ Len(TokensOf(i)[3]) <= 4

\* The first thing wrong with instruction line i is a refused token in a
\* register position
RefusedRegisterAt(i) ==
    /\ IsInstructionLine(i)
    /\ Known(i)
    /\ Len(TokensOf(i)) >= TokensNeeded(i)
    /\ \E p \in RegisterPositions(i) :
          /\ Refused(TokensOf(i)[p])
          /\ \A q \in RegisterPositions(i) : q < p => Canonical(TokensOf(i)[q])

(* C19: in a register position the assembler accepts every token r0..r31   *)
(* and encodes it as the byte N: a source whose lines are all faultless     *)
(* compiles, with N at the operand's place.  Every token rN with N >= 32    *)
(* and every token that does not start with `r` makes compile fail with     *)
(* UnknownRegister, when it is the first fault of the source and every      *)
(* mnemonic of the source is known.                                         *)
C19_RegisterTokens ==
    asm.ret # "none" =>
        /\ (\A i \in 1..Len(asm.source) : Faultless(i)) =>
              /\ asm.ret = "Ok"
              /\ \A i \in LinesChecked :
                    IsInstructionLine(i) =>
                        \A p \in RegisterPositions(i) :
                            asm.bytes[OffsetOf(i) + p] =
                                RegisterNumber(TokensOf(i)[p])
        /\ \A i \in 1..Len(asm.source) :
              (/\ RefusedRegisterAt(i)
               /\ \A h \in 1..(i - 1) : Faultless(h)
               /\ \A h \in (i + 1)..Len(asm.source) :
                     IsInstructionLine(h) => Known(h)) =>
                  asm.ret = "UnknownRegister"

\* compile accepted `LOAD r3 7` and then failed on the r32 that is the last
\* operand of a DIV
C19_Witness ==
    /\ asm.source = << Words(<<W_LOAD, Reg(3), Dec(7)>>),
                       Words(<<W_DIV, Reg(1), Reg(2), Reg(32)>>) >>
    /\ asm.ret = "UnknownRegister"
    /\ RefusedRegisterAt(2)
    /\ Faultless(1)

\* The labels the source of the last call defines
DefinedLabels ==
    { LabelOf(j) : j \in { j \in 1..Len(asm.source) : IsLabelLine(j) } }

(* C20: over the calls of compile on one assembler, successful or failing, *)
(* the set of label names never shrinks, a label the source does not       *)
(* define keeps its value, and a label of an earlier call that the source  *)
(* does not define resolves as a LOAD value: the value emitted is the      *)
(* label's earlier value, in 16 bits.                                      *)
C20_SymbolsPersist ==
    asm.ret # "none" =>
        /\ DOMAIN asm.before \subseteq DOMAIN symbols
        /\ \A l \in DOMAIN asm.before :
              l \notin DefinedLabels => symbols[l] = asm.before[l]
        /\ asm.ret = "Ok" =>
              \A i \in 1..Len(asm.source) :
                  (/\ IsInstructionLine(i)
                   /\ MnemonicOf(i) = W_LOAD
                   /\ TokensOf(i)[3] \in DOMAIN asm.before
                   /\ TokensOf(i)[3] \notin DefinedLabels) =>
                      asm.bytes[OffsetOf(i) + 3] * 256
                          + asm.bytes[OffsetOf(i) + 4]
                              = asm.before[TokensOf(i)[3]] % U16Mod

\* A call that failed on an unknown mnemonic had defined the label a at
\* offset 1; the next call, whose source has no label, loaded a and got 1
C20_Witness ==
    /\ compiles = 2
    /\ asm.prior = "UnknownInstruction"
    /\ asm.source = << Words(<<W_LOAD, Reg(0), T_a>>) >>
    /\ asm.ret = "Ok"
    /\ asm.before = [l \in {T_a} |-> 1]
    /\ SubSeq(asm.bytes, 1, 4) = <<1, 0, 0, 1>>

\* A byte that decodes to JMP or JMPF lies at or after the program counter
JumpAhead ==
    /\ UsizeLt(pc, Len(program))
    /\ \E i \in (pc.lo + 1)..Len(program) : program[i] \in {6, 7}

\* The call of run is over: it returned, or a panic unwound it
RunEnded == call.op = "run" /\ call.ret # "running"

(* C21 as stated: run always completes or fails; for every loaded buffer,    *)
(* those with JMP and JMPF included, a call of run eventually returns Ok or *)
(* a VMError.                                                               *)
C21_RunAlwaysReturns ==
    (call.op = "run" /\ call.ret = "running")
        ~> (call.op = "run" /\ call.ret \in {"Ok(())"} \cup Errors)

(* C21 amended: run blocks until execution ends.  Once no byte 6 or 7 lies  *)
(* at or after the program counter, so that no JMP or JMPF can be decoded   *)
(* any more, the call in progress ends: it returns Ok(()) or a VMError, or  *)
(* a panic unwinds it.                                                      *)
C21_RunEndsPastLastJump ==
    (call.op = "run" /\ call.ret = "running" /\ ~JumpAhead) ~> RunEnded

\* A run that fetched its last instruction at byte 40, after the ten
\* instructions of the prelude, returned Ok(()) at the end of the buffer
C21_Witness ==
    /\ call.op = "run"
    /\ call.ret = "Ok(())"
    /\ ~JumpAhead
    /\ Len(call.trace) = 1
    /\ call.trace[1].at = Usize(40)
    /\ Len(program) = 44
    /\ call.trace[1].ret = "Ok(true)"
    /\ ~RunLoopCondition(VMState)

\* The last call of compile succeeded and its buffer was loaded and run
CompiledRan == asm.ret = "Ok" /\ call.op = "run" /\ program = asm.bytes

\* Line i is the k-th instruction line of the source
IsNth(i, k) ==
    /\ IsInstructionLine(i)
    /\ Cardinality({ j \in 1..i : IsInstructionLine(j) }) = k

InstructionCount ==
    Cardinality({ i \in 1..Len(asm.source) : IsInstructionLine(i) })

\* The opcode byte the k-th pass of the run fetched
TraceOp(k) == program[call.trace[k].at.lo + 1]

\* The k-th pass of the run decoded the k-th instruction of the source,
\* where compile emitted it
DecodedInOrder(k) ==
    \E i \in 1..Len(asm.source) :
        /\ IsNth(i, k)
        /\ call.trace[k].at = Usize(OffsetOf(i))
        /\ TraceOp(k) = TableOpcode(MnemonicOf(i))

\* The k-th pass of the run is its last and stopped on the first byte of
\* the padding, a HLT
StoppedOnPadding(k) ==
    /\ k = Len(call.trace)
    /\ call.trace[k].at = Usize(asm.emitted)
    /\ asm.emitted < Len(program)
    /\ TraceOp(k) = 0
    /\ call.trace[k].ret = "Ok(false)"

(* C22 as stated: for every buffer a successful compile returns, loading it *)
(* and calling run never yields InvalidOpcode, RegisterOutOfBounds or       *)
(* ProgramCounterOutOfBounds; the VM decodes exactly the emitted            *)
(* instructions, in order, and then stops on the first padding byte or at   *)
(* the exact end of the buffer (or on a HLT that is the last instruction    *)
(* emitted).                                                                *)
C22_CompiledRunsClean ==
    CompiledRan =>
        /\ call.ret \notin {"InvalidOpcode", "RegisterOutOfBounds",
                            "ProgramCounterOutOfBounds"}
        /\ Len(call.trace) \in {InstructionCount, InstructionCount + 1}
        /\ \A k \in 1..InstructionCount : DecodedInOrder(k)
        /\ Len(call.trace) = InstructionCount + 1 =>
              StoppedOnPadding(InstructionCount + 1)
        /\ Len(call.trace) = InstructionCount =>
              \/ call.trace[InstructionCount].ret = "Ok(false)"
              \/ pc = Usize(Len(program)) /\ asm.emitted = Len(program)

(* C22 amended: for every buffer a successful compile returns, loading it   *)
(* and calling run returns Ok(()) or DivisionByZero, or panics in a DIV,    *)
(* and never yields InvalidOpcode, RegisterOutOfBounds or                   *)
(* ProgramCounterOutOfBounds.  The k-th instruction the VM decodes is the    *)
(* k-th instruction emitted, at its offset, up to the first of: a HLT of    *)
(* the source, a DIV that fails, the first padding byte (a HLT), the exact  *)
(* end of the buffer.  Instructions emitted after a HLT or a failing DIV    *)
(* are not decoded.                                                         *)
C22_CompiledRunsAligned ==
    CompiledRan =>
        /\ call.ret \in {"Ok(())", "DivisionByZero", "panic"}
        /\ Len(call.trace) >= 1
        /\ \A k \in 1..Len(call.trace) :
              IF call.trace[k].at.lo < asm.emitted
              THEN DecodedInOrder(k)
              ELSE StoppedOnPadding(k)
        /\ \A k \in 1..(Len(call.trace) - 1) :
              call.trace[k].ret = "Ok(true)" /\ TraceOp(k) # 0
        /\ \E n \in {Len(call.trace)} :
              \/ /\ call.trace[n].ret = "Ok(false)"
                 /\ TraceOp(n) = 0
                 /\ call.ret = "Ok(())"
              \/ /\ call.trace[n].ret \in {"DivisionByZero", "panic"}
                 /\ TraceOp(n) = 5
                 /\ call.ret = call.trace[n].ret
              \/ /\ call.trace[n].ret = "Ok(true)"
                 /\ call.trace[n].next = Usize(Len(program))
                 /\ asm.emitted = Len(program)
                 /\ call.ret = "Ok(())"

\* The program of main was compiled, loaded and run: eight instructions
\* decoded, the last of them the HLT of the source, r4 = 53 and r6 = 17
C22_Witness ==
    /\ CompiledRan
    /\ asm.source = MainSource
    /\ call.ret = "Ok(())"
    /\ Len(call.trace) = 8
    /\ call.trace[8].at = Usize(28)
    /\ registers[4] = 53
    /\ registers[6] = 17

=============================================================================
